---- MODULE Spec2Model ----
(***************************************************************************)
(* Server-side state of the deep-search chat application:                  *)
(*   - the per-user daily request limit (server/db/queries.ts),            *)
(*   - the chat POST handler (app/api/chat/route.ts),                      *)
(*   - the chat store: upsertChat / getChat in its transactional variant   *)
(*     (server/db/queries.ts) and in its statement-by-statement variant    *)
(*     (the query module that also holds the stream registry).             *)
(* Spec      : the POST handler over the rate limiter and the chat store.  *)
(* SpecStore : the chat store alone, statement by statement, with readers. *)
(***************************************************************************)
EXTENDS Integers, Sequences, FiniteSets, TLC

(* ------------------------------ bounds -------------------------------- *)
\* last instant of the modelled clock (instants are 0..MaxTime)
MaxTime == 2
\* longest message list a caller supplies
MaxLen == 2
\* most runs of the underlying operation of the memoized scrapePages per key
MaxInvocations == 2
\* longest message list in the body of a POST request
MaxBody == 1
\* number of upsertChat calls issued against the store in SpecStore
MaxCalls == 2

(* --------------------------- program constants ------------------------ *)
\* queries.ts:8
DAILY_REQUEST_LIMIT == 50
\* instants per local day: today.setHours(0, 0, 0, 0) cuts an instant down
\* to the midnight that starts its day (queries.ts:15)
DayLen == 2

Users == {"u1", "u2"}
\* the users table (read-only to this code): u2 is flagged admin
users == [u \in Users |-> [id |-> u, isAdmin |-> (u = "u2")]]
NoUser == "anonymous"
ChatIds == {"c1", "c2"}
Endpoints == {"/api/chat"}
Times == 0..MaxTime
\* the POST requests handled; they may overlap
Reqs == {"r1", "r2"}

\* a client Message: role, parts (opaque content) and the legacy content
Msg(role, text) == [role |-> role, parts |-> text, content |-> text]
UserMsg == Msg("user", "Hello")
AssistantMsg == Msg("assistant", "Hi there")
MsgVals == {UserMsg, AssistantMsg}
\* the message lists callers supply: conversations of alternating roles, of
\* every length up to n, opened by either party
Other(m) == IF m = UserMsg THEN AssistantMsg ELSE UserMsg
Conversation(first, n) == [i \in 1..n |-> IF i % 2 = 1 THEN first ELSE Other(first)]
Conversations(n) == {Conversation(first, k) : first \in MsgVals, k \in 0..n}
MsgLists == Conversations(MaxLen)
BodyLists == Conversations(MaxBody)
\* the chat ids POST requests name
BodyChatIds == {"c1"}

VARIABLES
  now,           \* the clock: new Date() / the database's now()
  userRequests,  \* table user_requests: row -> number of such rows
  chats,         \* table chats: id -> row, for the ids that exist
  messages,      \* table messages: chatId -> rows in insertion order
  req,           \* the POST requests: position and locals of each
  variant,       \* which query module the store runs: "tx" or "plain"
  call,          \* the upsertChat calls in flight in SpecStore
  reader,        \* the getChat call in flight in SpecStore
  returned,      \* what the getChat that returned in the last step returned
  started,       \* number of upsertChat calls issued in SpecStore
  lastOk,        \* chatId -> message list of its last successful upsert
  streams,       \* table streams: id -> row, for the ids that exist
  listed,        \* what the getChats / getStreamIds of the last step returned
  cache,         \* the cache store: key -> entry, for the keys ever set
  memo,          \* the calls of the memoized operation: position and locals
  invocations    \* key -> number of runs of the underlying operation so far

vars ==
  <<now, userRequests, chats, messages, req, variant, call, reader, returned, started,
    lastOk, streams, listed, cache, memo, invocations>>
cacheOnly == <<cache, memo, invocations>>
storeOnly == <<variant, call, reader, returned, started, streams, listed, cacheOnly>>

(* --------------------------- rate limiter ----------------------------- *)
RowKeys == [userId : Users, endpoint : Endpoints, requestDate : Times]

RECURSIVE SumOver(_, _)
SumOver(f, S) ==
  IF S = {} THEN 0
  ELSE LET k == CHOOSE x \in S : TRUE IN f[k] + SumOver(f, S \ {k})

\* today.setHours(0, 0, 0, 0)
StartOfDay(t) == t - (t % DayLen)

getUserRequestCountAfterMidnight(tbl, userId, t) ==
  SumOver(tbl, {k \in RowKeys : k.userId = userId /\ k.requestDate > StartOfDay(t)})
\* select count(*) from user_requests where userId = .. and requestDate >= today
getUserRequestCountToday(tbl, userId, t) ==
  SumOver(tbl, {k \in RowKeys : k.userId = userId /\ k.requestDate >= StartOfDay(t)})

addUserRequestTwice(tbl, userId, endpoint, t) ==
  LET k == [userId |-> userId, endpoint |-> endpoint, requestDate |-> t]
  IN [tbl EXCEPT ![k] = @ + 2]
\* insert into user_requests (userId, endpoint); requestDate is the insert instant
addUserRequest(tbl, userId, endpoint, t) ==
  LET k == [userId |-> userId, endpoint |-> endpoint, requestDate |-> t]
  IN [tbl EXCEPT ![k] = @ + 1]

isUserAdminNever(userId) == FALSE
\* result[0]?.isAdmin ?? false
isUserAdmin(userId) == IF userId \in DOMAIN users THEN users[userId].isAdmin ELSE FALSE

Finite(n) == [finite |-> TRUE, value |-> n]
Infinity == [finite |-> FALSE, value |-> 0]
NoReason == <<>>
Reason(limit, n) ==
  <<"Daily limit of ", limit, " requests exceeded. You have made ", n, " requests today.">>

\* the value canUserMakeRequest returns, given what its two queries read
RateLimitResultOffByOne(isAdmin, requestsToday) ==
  IF isAdmin
  THEN [allowed |-> TRUE, reason |-> NoReason, requestsToday |-> 0, limit |-> Infinity]
  ELSE IF requestsToday > DAILY_REQUEST_LIMIT
  THEN [allowed |-> FALSE, reason |-> Reason(DAILY_REQUEST_LIMIT, requestsToday),
        requestsToday |-> requestsToday, limit |-> Finite(DAILY_REQUEST_LIMIT)]
  ELSE [allowed |-> TRUE, reason |-> NoReason, requestsToday |-> requestsToday,
        limit |-> Finite(DAILY_REQUEST_LIMIT)]
RateLimitResultOpen(isAdmin, requestsToday) ==
  IF isAdmin
  THEN [allowed |-> TRUE, reason |-> NoReason, requestsToday |-> 0, limit |-> Infinity]
  ELSE [allowed |-> TRUE, reason |-> NoReason, requestsToday |-> requestsToday,
        limit |-> Finite(DAILY_REQUEST_LIMIT)]
RateLimitResult(isAdmin, requestsToday) ==
  IF isAdmin
  THEN [allowed |-> TRUE, reason |-> NoReason, requestsToday |-> 0, limit |-> Infinity]
  ELSE IF requestsToday >= DAILY_REQUEST_LIMIT
  THEN [allowed |-> FALSE, reason |-> Reason(DAILY_REQUEST_LIMIT, requestsToday),
        requestsToday |-> requestsToday, limit |-> Finite(DAILY_REQUEST_LIMIT)]
  ELSE [allowed |-> TRUE, reason |-> NoReason, requestsToday |-> requestsToday,
        limit |-> Finite(DAILY_REQUEST_LIMIT)]

(* ----------------------------- cache layer --------------------------- *)
\* the argument lists scrapePages is called with: arrays of urls
UrlLists == {<<"a">>, <<"b">>}
\* JSON.stringify / JSON.parse of a value
Serialize(v) == <<"json", v>>
Parse(text) == text[2]
\* the key of a call: operation name and serialized arguments
CacheKey(name, args) == <<name, Serialize(args)>>
CacheKeys == {CacheKey("scrapePages", urls) : urls \in UrlLists}
NoEntries == [k \in {} |-> 0]
MemoCallers == {"m1", "m2"}
\* what the underlying operation returns: the pages of the urls, as they
\* were at its run-th run
Result(urls, run) == [urls |-> urls, run |-> run]
NoResult == Result(<<>>, 0)
IdleMemo == [pc |-> "idle", key |-> CacheKey("scrapePages", <<"a">>), value |-> NoResult,
             invoked |-> 0, error |-> ""]
\* the fixed time-to-live of an entry, in instants
CacheTTL == 2
UpstreamOperationFailed == "UpstreamOperationFailed"

CacheLookupIgnoringExpiry(tbl, k, t) ==
  IF k \in DOMAIN tbl THEN <<tbl[k].value>> ELSE <<>>
\* the non-expired entry of key k at instant t, if there is one
CacheLookup(tbl, k, t) ==
  IF k \in DOMAIN tbl /\ t < tbl[k].expiresAt THEN <<tbl[k].value>> ELSE <<>>
\* store the serialized result under k with the fixed time-to-live
CacheStore(tbl, k, v, t) ==
  [x \in DOMAIN tbl \cup {k} |->
     IF x = k THEN [value |-> Serialize(v), expiresAt |-> t + CacheTTL] ELSE tbl[x]]

(* ------------------------ chat store: the tables ---------------------- *)
\* select * from chats where id = chatId limit 1
SelectChat(tbl, chatId) == IF chatId \in DOMAIN tbl THEN <<tbl[chatId]>> ELSE <<>>

\* insert into chats (id, userId, title, updatedAt)
InsertChat(tbl, chatId, userId, title, t) ==
  [c \in DOMAIN tbl \cup {chatId} |->
     IF c = chatId
     THEN [id |-> chatId, userId |-> userId, title |-> title, updatedAt |-> t]
     ELSE tbl[c]]

UpsertChatRowTakingOwner(tbl, chatId, userId, title, t) ==
  InsertChat(tbl, chatId, userId, title, t)
\* insert ... on conflict (id) do update set title, updatedAt
UpsertChatRow(tbl, chatId, userId, title, t) ==
  IF chatId \in DOMAIN tbl
  THEN [tbl EXCEPT ![chatId].title = title, ![chatId].updatedAt = t]
  ELSE InsertChat(tbl, chatId, userId, title, t)

DeleteMessagesNone(tbl, chatId) == tbl
\* delete from messages where chatId = ..
DeleteMessages(tbl, chatId) == [tbl EXCEPT ![chatId] = <<>>]

MessageValuesFromOne(messageList) ==
  [i \in 1..Len(messageList) |->
     [role |-> messageList[i].role, parts |-> messageList[i].parts, order |-> i]]
\* messageList.map((message, index) => ({chatId, role, parts, order: index}))
MessageValues(messageList) ==
  [i \in 1..Len(messageList) |->
     [role |-> messageList[i].role, parts |-> messageList[i].parts, order |-> i - 1]]

\* insert into messages values (...)
InsertMessages(tbl, chatId, values) == [tbl EXCEPT ![chatId] = @ \o values]

\* the delete and the insert of the transaction of upsertChat (queries.ts)
TxMessages(tbl, chatId, messageList) ==
  LET deleted == DeleteMessages(tbl, chatId)
  IN IF Len(messageList) > 0
     THEN InsertMessages(deleted, chatId, MessageValues(messageList))
     ELSE deleted

NotOwnerNever(existingChat, userId) == FALSE
\* existingChat.length > 0 && existingChat[0].userId !== userId
NotOwner(existingChat, userId) ==
  Len(existingChat) > 0 /\ existingChat[1].userId # userId

(* -------------------- chat store: upsertChat calls -------------------- *)
\* no getChat returned in the last step
NoReturn == <<>>
Callers == {"p1", "p2"}
Titles == {"Hello", "New Chat"}
NoView == [chats |-> <<>>, messages |-> <<>>]
IdleCall ==
  [pc |-> "idle", userId |-> "u1", chatId |-> "c1", title |-> "", messages |-> <<>>,
   view |-> NoView, error |-> "", calledAt |-> 0]
OwnershipError == "Chat does not belong to the logged in user"
ExistsError == "Chat ID already exists under a different user"

\* the call has returned, or thrown err: of its locals only who called for
\* which chat is kept (calledAt: the instant at which a call in flight began)
Done(c, err) ==
  [IdleCall EXCEPT !.pc = "done", !.userId = c.userId, !.chatId = c.chatId, !.error = err]

\* the arguments a caller may pass: upsertChat({userId, chatId, title, messages})
UpsertArgs(ids) ==
  {[IdleCall EXCEPT !.userId = u, !.chatId = c, !.title = t, !.messages = m] :
     u \in Users, c \in ids, t \in Titles, m \in MsgLists}

\* queries.ts: upsertChat is called; the select before the transaction, and
\* the ownership throw
TxSelect(p, args) ==
  /\ variant = "tx"
  /\ call[p].pc \in {"idle", "done"}
  /\ started < MaxCalls
  /\ started' = started + 1
  /\ \E a \in args :
       LET existingChat == SelectChat(chats, a.chatId)
       IN call' = [call EXCEPT ![p] =
                     IF NotOwner(existingChat, a.userId)
                     THEN Done(a, OwnershipError)
                     ELSE [a EXCEPT !.pc = "tx_chat", !.calledAt = now]]
  /\ returned' = NoReturn
  /\ UNCHANGED <<now, userRequests, chats, messages, req, variant, reader, lastOk>>
  /\ listed' = NoReturn
  /\ UNCHANGED <<streams, cacheOnly>>

\* a transaction that has written the chat row holds that row's lock
InTx(q) == call[q].pc \in {"tx_delete", "tx_insert", "tx_commit"}
RowLocked(p) == \E q \in Callers \ {p} : InTx(q) /\ call[q].chatId = call[p].chatId

\* tx.insert(chats) ... onConflictDoUpdate: waits for the row lock, then writes
\* into the transaction's own view of the tables
TxUpsertChat(p) ==
  /\ variant = "tx"
  /\ call[p].pc = "tx_chat"
  /\ ~RowLocked(p)
  /\ call' = [call EXCEPT ![p].pc = "tx_delete",
                          ![p].view = [chats |-> UpsertChatRow(chats, call[p].chatId,
                                                   call[p].userId, call[p].title, now),
                                       messages |-> messages]]
  /\ returned' = NoReturn
  /\ UNCHANGED <<now, userRequests, chats, messages, req, variant, reader, started, lastOk>>
  /\ listed' = NoReturn
  /\ UNCHANGED <<streams, cacheOnly>>

TxDeleteUnisolated(p) ==
  /\ variant = "tx"
  /\ call[p].pc = "tx_delete"
  /\ call' = [call EXCEPT ![p].pc = "tx_insert",
                          ![p].view.messages = DeleteMessages(@, call[p].chatId)]
  /\ messages' = DeleteMessages(messages, call[p].chatId)
  /\ returned' = NoReturn
  /\ UNCHANGED <<now, userRequests, chats, req, variant, reader, started, lastOk>>
  /\ listed' = NoReturn
  /\ UNCHANGED <<streams, cacheOnly>>
\* tx.delete(messages).where(chatId)
TxDelete(p) ==
  /\ variant = "tx"
  /\ call[p].pc = "tx_delete"
  /\ call' = [call EXCEPT ![p].pc = "tx_insert",
                          ![p].view.messages = DeleteMessages(@, call[p].chatId)]
  /\ returned' = NoReturn
  /\ UNCHANGED <<now, userRequests, chats, messages, req, variant, reader, started, lastOk>>
  /\ listed' = NoReturn
  /\ UNCHANGED <<streams, cacheOnly>>

\* if (messageList.length > 0) tx.insert(messages).values(messageValues)
TxInsert(p) ==
  /\ variant = "tx"
  /\ call[p].pc = "tx_insert"
  /\ call' = [call EXCEPT ![p].pc = "tx_commit",
                          ![p].view.messages =
                             IF Len(call[p].messages) > 0
                             THEN InsertMessages(@, call[p].chatId,
                                                 MessageValues(call[p].messages))
                             ELSE @]
  /\ returned' = NoReturn
  /\ UNCHANGED <<now, userRequests, chats, messages, req, variant, reader, started, lastOk>>
  /\ listed' = NoReturn
  /\ UNCHANGED <<streams, cacheOnly>>

\* what a commit installs: the rows of the transaction's chat, from its view
Committed(tbl, viewTbl, chatId) ==
  [c \in DOMAIN tbl \cup {chatId} |-> IF c = chatId THEN viewTbl[c] ELSE tbl[c]]

\* the callback returns chat[0]: the transaction commits
TxCommit(p) ==
  /\ variant = "tx"
  /\ call[p].pc = "tx_commit"
  /\ chats' = Committed(chats, call[p].view.chats, call[p].chatId)
  /\ messages' = Committed(messages, call[p].view.messages, call[p].chatId)
  /\ lastOk' = [lastOk EXCEPT ![call[p].chatId] = call[p].messages]
  /\ call' = [call EXCEPT ![p] = Done(@, "")]
  /\ returned' = NoReturn
  /\ UNCHANGED <<now, userRequests, req, variant, reader, started>>
  /\ listed' = NoReturn
  /\ UNCHANGED <<streams, cacheOnly>>

\* a statement of the transaction (or the commit) fails: the view is dropped
TxRollback(p) ==
  /\ variant = "tx"
  /\ call[p].pc \in {"tx_chat", "tx_delete", "tx_insert", "tx_commit"}
  /\ call' = [call EXCEPT ![p] = Done(@, "storage")]
  /\ returned' = NoReturn
  /\ UNCHANGED <<now, userRequests, chats, messages, req, variant, reader, started, lastOk>>
  /\ listed' = NoReturn
  /\ UNCHANGED <<streams, cacheOnly>>

\* the other query module: upsertChat is called; findFirst, the ownership
\* throw, and the branch on existingChat
PlainSelect(p, args) ==
  /\ variant = "plain"
  /\ call[p].pc \in {"idle", "done"}
  /\ started < MaxCalls
  /\ started' = started + 1
  /\ \E a \in args :
       LET existingChat == SelectChat(chats, a.chatId)
       IN call' = [call EXCEPT ![p] =
                     IF Len(existingChat) > 0
                     THEN IF existingChat[1].userId # a.userId
                          THEN Done(a, ExistsError)
                          ELSE [a EXCEPT !.pc = "delete", !.calledAt = now]
                     ELSE [a EXCEPT !.pc = "insert_chat", !.calledAt = now]]
  /\ returned' = NoReturn
  /\ UNCHANGED <<now, userRequests, chats, messages, req, variant, reader, lastOk>>
  /\ listed' = NoReturn
  /\ UNCHANGED <<streams, cacheOnly>>

\* await db.delete(messages).where(chatId): its own statement, committed at once
PlainDelete(p) ==
  /\ variant = "plain"
  /\ call[p].pc = "delete"
  /\ messages' = DeleteMessages(messages, call[p].chatId)
  /\ call' = [call EXCEPT ![p].pc = "insert_messages"]
  /\ returned' = NoReturn
  /\ UNCHANGED <<now, userRequests, chats, req, variant, reader, started, lastOk>>
  /\ listed' = NoReturn
  /\ UNCHANGED <<streams, cacheOnly>>

\* await db.insert(chats).values({id, userId, title}): a second insert of the
\* same id violates the primary key
PlainInsertChat(p) ==
  /\ variant = "plain"
  /\ call[p].pc = "insert_chat"
  /\ IF call[p].chatId \in DOMAIN chats
     THEN /\ call' = [call EXCEPT ![p] = Done(@, "duplicate key")]
          /\ UNCHANGED chats
     ELSE /\ chats' = InsertChat(chats, call[p].chatId, call[p].userId, call[p].title, now)
          /\ call' = [call EXCEPT ![p].pc = "insert_messages"]
  /\ returned' = NoReturn
  /\ UNCHANGED <<now, userRequests, messages, req, variant, reader, started, lastOk>>
  /\ listed' = NoReturn
  /\ UNCHANGED <<streams, cacheOnly>>

\* await db.insert(messages).values(newMessages.map(...)): values([]) throws
PlainInsertMessages(p) ==
  /\ variant = "plain"
  /\ call[p].pc = "insert_messages"
  /\ IF Len(call[p].messages) = 0
     THEN /\ call' = [call EXCEPT ![p] = Done(@, "values() must be called with at least one value")]
          /\ UNCHANGED <<messages, lastOk>>
     ELSE /\ messages' = InsertMessages(messages, call[p].chatId,
                                        MessageValues(call[p].messages))
          /\ lastOk' = [lastOk EXCEPT ![call[p].chatId] = call[p].messages]
          /\ call' = [call EXCEPT ![p] = Done(@, "")]
  /\ returned' = NoReturn
  /\ UNCHANGED <<now, userRequests, chats, req, variant, reader, started>>
  /\ listed' = NoReturn
  /\ UNCHANGED <<streams, cacheOnly>>

\* a statement fails (storage unavailable): it changes nothing and the call
\* throws; the statements before it stay committed
PlainFail(p) ==
  /\ variant = "plain"
  /\ call[p].pc \in {"delete", "insert_chat", "insert_messages"}
  /\ call' = [call EXCEPT ![p] = Done(@, "storage")]
  /\ returned' = NoReturn
  /\ UNCHANGED <<now, userRequests, chats, messages, req, variant, reader, started, lastOk>>
  /\ listed' = NoReturn
  /\ UNCHANGED <<streams, cacheOnly>>

(* ----------------------- chat store: getChat -------------------------- *)
\* the orderings "order by order" may return (rows of equal order in any order)
RECURSIVE OrderedBy(_, _)
OrderedBy(rows, I) ==
  IF I = {} THEN {<<>>}
  ELSE LET least == {i \in I : \A j \in I : rows[i].order <= rows[j].order}
       IN UNION {{<<rows[i]>> \o rest : rest \in OrderedBy(rows, I \ {i})} : i \in least}
SelectMessagesUnordered(tbl, chatId) == {tbl[chatId]}
SelectMessages(tbl, chatId) == OrderedBy(tbl[chatId], DOMAIN tbl[chatId])

\* select * from chats where id = chatId and userId = userId limit 1
SelectOwnChat(tbl, chatId, userId) ==
  IF chatId \in DOMAIN tbl /\ tbl[chatId].userId = userId THEN <<tbl[chatId]>> ELSE <<>>

\* queries.ts: {id, role, parts, content: ""}
AsMessage(row) == [role |-> row.role, parts |-> row.parts, content |-> ""]
\* the other query module: {id, role, content: message.parts, ...}
AsPlainMessage(row) == [role |-> row.role, content |-> row.parts]
AsMessages(rows) == [i \in 1..Len(rows) |-> AsMessage(rows[i])]
AsPlainMessages(rows) == [i \in 1..Len(rows) |-> AsPlainMessage(rows[i])]

\* what getChat returns: null, or the chat with its messages
Null(c, u) == [chatId |-> c, userId |-> u, found |-> FALSE, chat |-> <<>>, messages |-> <<>>]
Found(c, u, chatRow, msgs) ==
  [chatId |-> c, userId |-> u, found |-> TRUE, chat |-> <<chatRow>>, messages |-> msgs]
IdleReader == [pc |-> "idle", chatId |-> "c1", userId |-> "u1", chat |-> <<>>]

\* queries.ts getChat: called; the select of the chat row, null if it is not
\* the caller's
TxGetChat(ids) ==
  /\ variant = "tx"
  /\ reader.pc = "idle"
  /\ \E c \in ids, u \in Users :
       LET chatResult == SelectOwnChat(chats, c, u)
       IN IF Len(chatResult) = 0
          THEN /\ returned' = <<Null(c, u)>>
               /\ UNCHANGED reader
          ELSE /\ reader' = [pc |-> "messages", chatId |-> c, userId |-> u,
                             chat |-> chatResult]
               /\ returned' = NoReturn
  /\ UNCHANGED <<now, userRequests, chats, messages, req, variant, call, started, lastOk>>
  /\ listed' = NoReturn
  /\ UNCHANGED <<streams, cacheOnly>>

\* queries.ts getChat: the select of the messages, a statement of its own
TxGetMessages ==
  /\ variant = "tx"
  /\ reader.pc = "messages"
  /\ \E messagesResult \in SelectMessages(messages, reader.chatId) :
       returned' = <<Found(reader.chatId, reader.userId, reader.chat[1],
                           AsMessages(messagesResult))>>
  /\ reader' = IdleReader
  /\ UNCHANGED <<now, userRequests, chats, messages, req, variant, call, started, lastOk>>
  /\ listed' = NoReturn
  /\ UNCHANGED <<streams, cacheOnly>>

\* the other query module's getChat: one findFirst with its messages
PlainGetChat(ids) ==
  /\ variant = "plain"
  /\ \E c \in ids, u \in Users :
       LET chat == SelectOwnChat(chats, c, u)
       IN IF Len(chat) = 0
          THEN returned' = <<Null(c, u)>>
          ELSE \E rows \in SelectMessages(messages, c) :
                 returned' = <<Found(c, u, chat[1], AsPlainMessages(rows))>>
  /\ UNCHANGED <<now, userRequests, chats, messages, req, variant, call, reader, started, lastOk>>
  /\ listed' = NoReturn
  /\ UNCHANGED <<streams, cacheOnly>>

(* --------------------------- POST handler ----------------------------- *)
\* slice(0, 50).trim() + (length > 50 ? '...' : ''): the texts here are short
Slice50(text) == text

\* chatTitle of route.ts: from the first user message, else 'New Chat'
ChatTitle(msgs) ==
  LET idx == {i \in 1..Len(msgs) : msgs[i].role = "user"}
  IN IF idx = {} THEN "New Chat"
     ELSE LET first == CHOOSE i \in idx : \A j \in idx : i <= j
          IN Slice50(msgs[first].parts)

\* appendResponseMessages({messages, responseMessages})
appendResponseMessages(msgs, responseMessages) == msgs \o responseMessages

NoCheck == [allowed |-> FALSE, reason |-> NoReason, requestsToday |-> 0, limit |-> Finite(0)]
NoBody == [chatId |-> "c1", messages |-> <<>>]
IdleReq ==
  [pc |-> "idle", user |-> NoUser, check |-> NoCheck, body |-> NoBody,
   title |-> "", updated |-> <<>>, status |-> 0, stream |-> "", log |-> <<>>]

Logged(r, e) == Append(req[r].log, e)

\* POST up to its first query: auth()
Post(r) ==
  /\ req[r].pc = "idle"
  /\ \E u \in Users \cup {NoUser} :
       req' = [req EXCEPT ![r] =
                 IF u = NoUser
                 THEN [@ EXCEPT !.pc = "done", !.status = 401]
                 ELSE [@ EXCEPT !.pc = "isUserAdmin", !.user = u]]
  /\ UNCHANGED <<now, userRequests, chats, messages, lastOk>>
  /\ UNCHANGED storeOnly

\* canUserMakeRequest: the isUserAdmin query and what follows it
CheckAdmin(r) ==
  /\ req[r].pc = "isUserAdmin"
  /\ req' = [req EXCEPT ![r] =
               IF isUserAdmin(req[r].user)
               THEN [@ EXCEPT !.pc = "addUserRequest", !.check = RateLimitResult(TRUE, 0)]
               ELSE [@ EXCEPT !.pc = "getUserRequestCountToday"]]
  /\ UNCHANGED <<now, userRequests, chats, messages, lastOk>>
  /\ UNCHANGED storeOnly

CheckCountRecording(r) ==
  /\ req[r].pc = "getUserRequestCountToday"
  /\ LET check == RateLimitResult(FALSE,
                    getUserRequestCountToday(userRequests, req[r].user, now))
     IN req' = [req EXCEPT ![r] =
                  IF check.allowed
                  THEN [@ EXCEPT !.pc = "addUserRequest", !.check = check]
                  ELSE [@ EXCEPT !.pc = "done", !.check = check, !.status = 429]]
  /\ userRequests' = addUserRequest(userRequests, req[r].user, "/api/chat", now)
  /\ UNCHANGED <<now, chats, messages, lastOk>>
  /\ UNCHANGED storeOnly
\* canUserMakeRequest: the count query, its result, and the 429 response
CheckCount(r) ==
  /\ req[r].pc = "getUserRequestCountToday"
  /\ LET check == RateLimitResult(FALSE,
                    getUserRequestCountToday(userRequests, req[r].user, now))
     IN req' = [req EXCEPT ![r] =
                  IF check.allowed
                  THEN [@ EXCEPT !.pc = "addUserRequest", !.check = check]
                  ELSE [@ EXCEPT !.pc = "done", !.check = check, !.status = 429]]
  /\ UNCHANGED <<now, userRequests, chats, messages, lastOk>>
  /\ UNCHANGED storeOnly

\* await addUserRequest(session.user.id, "/api/chat")
Record(r) ==
  /\ req[r].pc = "addUserRequest"
  /\ userRequests' = addUserRequest(userRequests, req[r].user, "/api/chat", now)
  /\ req' = [req EXCEPT ![r].pc = "json", ![r].log = Logged(r, "addUserRequest")]
  /\ UNCHANGED <<now, chats, messages, lastOk>>
  /\ UNCHANGED storeOnly

\* await request.json(), then execute up to the first query of upsertChat
ParseBody(r) ==
  /\ req[r].pc = "json"
  /\ \/ req' = [req EXCEPT ![r].pc = "done", ![r].status = 500]
     \/ \E c \in BodyChatIds, m \in BodyLists :
          req' = [req EXCEPT ![r].pc = "upsert1",
                             ![r].body = [chatId |-> c, messages |-> m],
                             ![r].title = ChatTitle(m),
                             ![r].status = 200,
                             ![r].stream = "open"]
  /\ UNCHANGED <<now, userRequests, chats, messages, lastOk>>
  /\ UNCHANGED storeOnly

\* upsertChat, first statement: the select of the ownership check.  A throw
\* before generation ends execute (onError); a throw in onFinish is caught.
UpsertSelect(r) ==
  /\ req[r].pc \in {"upsert1", "upsert2"}
  /\ LET existingChat == SelectChat(chats, req[r].body.chatId)
         first == req[r].pc = "upsert1"
     IN req' = [req EXCEPT ![r] =
                  IF NotOwner(existingChat, req[r].user)
                  THEN [@ EXCEPT !.pc = "done",
                                 !.stream = IF first THEN "error" ELSE "finished",
                                 !.log = Logged(r, "upsertChat throws")]
                  ELSE [@ EXCEPT !.pc = IF first THEN "upsert1_tx" ELSE "upsert2_tx"]]
  /\ UNCHANGED <<now, userRequests, chats, messages, lastOk>>
  /\ UNCHANGED storeOnly

\* the message list the pending upsertChat of request r was called with
UpsertArg(r) == IF req[r].pc = "upsert1_tx" THEN req[r].body.messages ELSE req[r].updated

\* upsertChat, the transaction commits; after the first upsert execute goes on
\* to streamText, after the second onFinish returns
UpsertCommit(r) ==
  /\ req[r].pc \in {"upsert1_tx", "upsert2_tx"}
  /\ chats' = UpsertChatRow(chats, req[r].body.chatId, req[r].user, req[r].title, now)
  /\ messages' = TxMessages(messages, req[r].body.chatId, UpsertArg(r))
  /\ req' = [req EXCEPT ![r] =
               IF req[r].pc = "upsert1_tx"
               THEN [@ EXCEPT !.pc = "streamText",
                              !.log = Logged(r, "upsertChat") \o <<"streamText">>]
               ELSE [@ EXCEPT !.pc = "done", !.stream = "finished",
                              !.log = Logged(r, "upsertChat")]]
  /\ lastOk' = [lastOk EXCEPT ![req[r].body.chatId] = UpsertArg(r)]
  /\ UNCHANGED <<now, userRequests>>
  /\ UNCHANGED storeOnly

UpsertRollbackGeneratingAnyway(r) ==
  /\ req[r].pc \in {"upsert1_tx", "upsert2_tx"}
  /\ req' = [req EXCEPT ![r] =
               IF req[r].pc = "upsert1_tx"
               THEN [@ EXCEPT !.pc = "streamText",
                              !.log = Logged(r, "upsertChat throws") \o <<"streamText">>]
               ELSE [@ EXCEPT !.pc = "done", !.stream = "finished",
                              !.log = Logged(r, "upsertChat throws")]]
  /\ UNCHANGED <<now, userRequests, chats, messages, lastOk>>
  /\ UNCHANGED storeOnly
UpsertRollbackBreakingStream(r) ==
  /\ req[r].pc \in {"upsert1_tx", "upsert2_tx"}
  /\ req' = [req EXCEPT ![r].pc = "done",
                        ![r].stream = "error",
                        ![r].log = Logged(r, "upsertChat throws")]
  /\ UNCHANGED <<now, userRequests, chats, messages, lastOk>>
  /\ UNCHANGED storeOnly
\* upsertChat, the transaction fails and rolls back
UpsertRollback(r) ==
  /\ req[r].pc \in {"upsert1_tx", "upsert2_tx"}
  /\ req' = [req EXCEPT ![r].pc = "done",
                        ![r].stream = IF req[r].pc = "upsert1_tx" THEN "error" ELSE "finished",
                        ![r].log = Logged(r, "upsertChat throws")]
  /\ UNCHANGED <<now, userRequests, chats, messages, lastOk>>
  /\ UNCHANGED storeOnly

\* streamText runs to its end: onFinish up to the first query of upsertChat
Finish(r) ==
  /\ req[r].pc = "streamText"
  /\ \E reply \in {AssistantMsg} :
       req' = [req EXCEPT ![r].pc = "upsert2",
                          ![r].updated = appendResponseMessages(req[r].body.messages, <<reply>>),
                          ![r].log = Logged(r, "onFinish")]
  /\ UNCHANGED <<now, userRequests, chats, messages, lastOk>>
  /\ UNCHANGED storeOnly

AbortStoringPartial(r) ==
  /\ req[r].pc = "streamText"
  /\ req' = [req EXCEPT ![r].pc = "done", ![r].stream = "aborted"]
  /\ messages' = TxMessages(messages, req[r].body.chatId,
                            appendResponseMessages(req[r].body.messages, <<AssistantMsg>>))
  /\ UNCHANGED <<now, userRequests, chats, lastOk>>
  /\ UNCHANGED storeOnly
\* streamText is aborted (disconnect, timeout, model error): onFinish never runs
Abort(r) ==
  /\ req[r].pc = "streamText"
  /\ req' = [req EXCEPT ![r].pc = "done", ![r].stream = "aborted"]
  /\ UNCHANGED <<now, userRequests, chats, messages, lastOk>>
  /\ UNCHANGED storeOnly

\* time passes
Tick ==
  /\ now < MaxTime
  /\ now' = now + 1
  /\ returned' = NoReturn
  /\ listed' = NoReturn
  /\ UNCHANGED <<userRequests, chats, messages, req, variant, call, reader, started,
                 lastOk, streams, cacheOnly>>

\* the number of rows each user already has at instant 0
Preload == {0, DAILY_REQUEST_LIMIT - 1, DAILY_REQUEST_LIMIT + 1}
NoChats == [c \in {} |-> 0]
NoMessages == [c \in ChatIds |-> <<>>]
NoStreams == [s \in {} |-> 0]

Init ==
  /\ now = 0
  /\ \E n \in Preload :
       userRequests = [k \in RowKeys |-> IF k.requestDate = 0 THEN n ELSE 0]
  /\ chats = NoChats
  /\ messages = NoMessages
  /\ req = [r \in Reqs |-> IdleReq]
  /\ variant = "tx"
  /\ call = [p \in Callers |-> IdleCall]
  /\ reader = IdleReader
  /\ returned = NoReturn
  /\ started = 0
  /\ lastOk = NoMessages
  /\ streams = NoStreams
  /\ listed = NoReturn
  /\ cache = NoEntries
  /\ memo = [m \in MemoCallers |-> IdleMemo]
  /\ invocations = [k \in CacheKeys |-> 0]

Next ==
  \/ \E r \in Reqs : Post(r)
  \/ \E r \in Reqs : CheckAdmin(r)
  \/ \E r \in Reqs : CheckCount(r)
  \/ \E r \in Reqs : Record(r)
  \/ \E r \in Reqs : ParseBody(r)
  \/ \E r \in Reqs : UpsertSelect(r)
  \/ \E r \in Reqs : UpsertCommit(r)
  \/ \E r \in Reqs : UpsertRollback(r)
  \/ \E r \in Reqs : Finish(r)
  \/ \E r \in Reqs : Abort(r)
  \/ Tick

Spec == Init /\ [][Next]_vars

(* ------------------------- the chat store alone ----------------------- *)
\* the chat ids the callers of SpecStore name
StoreIds == {"c1"}

InitStore ==
  /\ now = 0
  /\ userRequests = [k \in RowKeys |-> 0]
  /\ chats = NoChats
  /\ messages = NoMessages
  /\ req = [r \in Reqs |-> IdleReq]
  /\ variant \in {"tx", "plain"}
  /\ call = [p \in Callers |-> IdleCall]
  /\ reader = IdleReader
  /\ returned = NoReturn
  /\ started = 0
  /\ lastOk = NoMessages
  /\ streams = NoStreams
  /\ listed = NoReturn
  /\ cache = NoEntries
  /\ memo = [m \in MemoCallers |-> IdleMemo]
  /\ invocations = [k \in CacheKeys |-> 0]

NextStore ==
  \/ \E p \in Callers : TxSelect(p, UpsertArgs(StoreIds))
  \/ \E p \in Callers : TxUpsertChat(p)
  \/ \E p \in Callers : TxDelete(p)
  \/ \E p \in Callers : TxInsert(p)
  \/ \E p \in Callers : TxCommit(p)
  \/ \E p \in Callers : TxRollback(p)
  \/ \E p \in Callers : PlainSelect(p, UpsertArgs(StoreIds))
  \/ \E p \in Callers : PlainDelete(p)
  \/ \E p \in Callers : PlainInsertChat(p)
  \/ \E p \in Callers : PlainInsertMessages(p)
  \/ \E p \in Callers : PlainFail(p)
  \/ TxGetChat(StoreIds)
  \/ TxGetMessages
  \/ PlainGetChat(StoreIds)

SpecStore == InitStore /\ [][NextStore]_vars

(* ------------------- chat list and stream registry -------------------- *)
\* the sequences of the keys S in descending order of at (ties in any order)
RECURSIVE OrderedDesc(_, _)
OrderedDesc(at, S) ==
  IF S = {} THEN {<<>>}
  ELSE LET greatest == {k \in S : \A j \in S : at[k] >= at[j]}
       IN UNION {{<<k>> \o rest : rest \in OrderedDesc(at, S \ {k})} : k \in greatest}

getChatsOfAnyone(tbl, userId) ==
  {[i \in 1..Len(ks) |-> tbl[ks[i]]] :
     ks \in OrderedDesc([c \in DOMAIN tbl |-> tbl[c].updatedAt], DOMAIN tbl)}
\* select * from chats where userId = .. order by updatedAt desc: the results
\* the query may give
getChats(tbl, userId) ==
  {[i \in 1..Len(ks) |-> tbl[ks[i]]] :
     ks \in OrderedDesc([c \in DOMAIN tbl |-> tbl[c].updatedAt],
                        {c \in DOMAIN tbl : tbl[c].userId = userId})}

\* what a list query or an append of the last step gave its caller
Listed(op, of, result) == <<[op |-> op, of |-> of, result |-> result]>>

\* getChats({userId}), the same query in both query modules
GetChats ==
  /\ \E u \in Users : \E result \in getChats(chats, u) :
       listed' = Listed("getChats", u, result)
  /\ returned' = NoReturn
  /\ UNCHANGED <<now, userRequests, chats, messages, req, variant, call, reader, started,
                 lastOk, streams, cacheOnly>>

StreamIds == {"s1", "s2"}
Undefined == "undefined"
\* table streams(id PK, chatId FK, createdAt): the row an insert of (id, chatId)
\* makes, createdAt being the instant of the insert
StreamRow(streamId, chatId, t) == [id |-> streamId, chatId |-> chatId, createdAt |-> t]
\* the insert is refused: the id exists already, or the chat does not exist
StreamRefused(tbl, chatTbl, streamId, chatId) ==
  IF streamId \in DOMAIN tbl THEN "duplicate key"
  ELSE IF chatId \notin DOMAIN chatTbl THEN "foreign key"
  ELSE ""

\* db.insert(streams).values({id: streamId, chatId})
appendStreamId(tbl, chatId, streamId, t) ==
  [s \in DOMAIN tbl \cup {streamId} |->
     IF s = streamId THEN StreamRow(streamId, chatId, t) ELSE tbl[s]]

getStreamIdsOldestFirst(tbl, chatId) ==
  {[streamIds |-> [i \in 1..Len(ks) |-> ks[Len(ks) + 1 - i]],
    mostRecentStreamId |-> IF ks = <<>> THEN Undefined ELSE ks[Len(ks)]] :
     ks \in OrderedDesc([s \in DOMAIN tbl |-> tbl[s].createdAt],
                        {s \in DOMAIN tbl : tbl[s].chatId = chatId})}
\* findMany where chatId order by createdAt desc; streamIds and streamResult[0]?.id
getStreamIds(tbl, chatId) ==
  {[streamIds |-> ks, mostRecentStreamId |-> IF ks = <<>> THEN Undefined ELSE ks[1]] :
     ks \in OrderedDesc([s \in DOMAIN tbl |-> tbl[s].createdAt],
                        {s \in DOMAIN tbl : tbl[s].chatId = chatId})}

AppendStreamIdReplacing ==
  /\ variant = "plain"
  /\ \E c \in ChatIds, s \in StreamIds :
       LET refused == StreamRefused(streams, chats, s, c)
           kept == {k \in DOMAIN streams : streams[k].chatId # c}
       IN /\ streams' = IF refused = ""
                        THEN appendStreamId([k \in kept |-> streams[k]], c, s, now)
                        ELSE streams
          /\ listed' = Listed("appendStreamId", [chatId |-> c, streamId |-> s], refused)
  /\ returned' = NoReturn
  /\ UNCHANGED <<now, userRequests, chats, messages, req, variant, call, reader, started,
                 lastOk, cacheOnly>>
\* appendStreamId({chatId, streamId}) of the query module that holds the
\* registry; a refused insert throws and changes nothing
AppendStreamId ==
  /\ variant = "plain"
  /\ \E c \in ChatIds, s \in StreamIds :
       LET refused == StreamRefused(streams, chats, s, c)
       IN /\ streams' = IF refused = "" THEN appendStreamId(streams, c, s, now) ELSE streams
          /\ listed' = Listed("appendStreamId", [chatId |-> c, streamId |-> s], refused)
  /\ returned' = NoReturn
  /\ UNCHANGED <<now, userRequests, chats, messages, req, variant, call, reader, started,
                 lastOk, cacheOnly>>

\* getStreamIds({chatId})
GetStreamIds ==
  /\ variant = "plain"
  /\ \E c \in ChatIds : \E result \in getStreamIds(streams, c) :
       listed' = Listed("getStreamIds", c, result)
  /\ returned' = NoReturn
  /\ UNCHANGED <<now, userRequests, chats, messages, req, variant, call, reader, started,
                 lastOk, streams, cacheOnly>>

\* the calls issued where only the chat rows matter: either user, either chat
\* id, one title and one message list
ListArgs ==
  {a \in UpsertArgs(ChatIds) : a.title = "Hello" /\ a.messages = <<UserMsg>>}

\* the chat store of either query module with the chat list, over both chat
\* ids and with time passing
NextLists ==
  \/ \E p \in Callers : TxSelect(p, ListArgs)
  \/ \E p \in Callers : TxUpsertChat(p)
  \/ \E p \in Callers : TxDelete(p)
  \/ \E p \in Callers : TxInsert(p)
  \/ \E p \in Callers : TxCommit(p)
  \/ \E p \in Callers : TxRollback(p)
  \/ \E p \in Callers : PlainSelect(p, ListArgs)
  \/ \E p \in Callers : PlainDelete(p)
  \/ \E p \in Callers : PlainInsertChat(p)
  \/ \E p \in Callers : PlainInsertMessages(p)
  \/ \E p \in Callers : PlainFail(p)
  \/ GetChats
  \/ Tick

\* the tables as upsertChat({userId: u1, chatId: c1, title: "Hello",
\* messages: [UserMsg]}) at instant 0 leaves them
OneChat == InsertChat(NoChats, "c1", "u1", "Hello", 0)
OneChatMessages == InsertMessages(NoMessages, "c1", MessageValues(<<UserMsg>>))

\* no chat yet, or that one chat
InitLists ==
  /\ now = 0
  /\ userRequests = [k \in RowKeys |-> 0]
  /\ \E one \in BOOLEAN :
       /\ chats = IF one THEN OneChat ELSE NoChats
       /\ messages = IF one THEN OneChatMessages ELSE NoMessages
       /\ lastOk = IF one THEN [NoMessages EXCEPT !["c1"] = <<UserMsg>>] ELSE NoMessages
  /\ req = [r \in Reqs |-> IdleReq]
  /\ variant \in {"tx", "plain"}
  /\ call = [p \in Callers |-> IdleCall]
  /\ reader = IdleReader
  /\ returned = NoReturn
  /\ started = 0
  /\ streams = NoStreams
  /\ listed = NoReturn
  /\ cache = NoEntries
  /\ memo = [m \in MemoCallers |-> IdleMemo]
  /\ invocations = [k \in CacheKeys |-> 0]

SpecLists == InitLists /\ [][NextLists]_vars

\* the query module that holds the stream registry, one caller at a time,
\* chat c1 existing
InitRegistry == InitLists /\ variant = "plain" /\ chats = OneChat

\* the registry knows no users: the upserts next to it are those of one user
\* on the other chat
RegistryArgs == {a \in ListArgs : a.userId = "u1" /\ a.chatId = "c2"}

NextRegistry ==
  \/ PlainSelect("p1", RegistryArgs)
  \/ PlainDelete("p1")
  \/ PlainInsertChat("p1")
  \/ PlainInsertMessages("p1")
  \/ PlainFail("p1")
  \/ PlainGetChat(ChatIds)
  \/ GetChats
  \/ AppendStreamId
  \/ GetStreamIds
  \/ Tick

SpecRegistry == InitRegistry /\ [][NextRegistry]_vars

(* ------------------- cache layer: the memoized call ------------------- *)
\* scrapePages(urls) is called: the lookup of the key; a non-expired entry is
\* returned without running the underlying operation
MemoCall(m) ==
  /\ memo[m].pc \in {"idle", "done"}
  /\ \E urls \in UrlLists :
       LET k == CacheKey("scrapePages", urls)
           cached == CacheLookup(cache, k, now)
       IN memo' = [memo EXCEPT ![m] =
                     IF Len(cached) > 0
                     THEN [IdleMemo EXCEPT !.pc = "done", !.key = k, !.value = Parse(cached[1])]
                     ELSE [IdleMemo EXCEPT !.pc = "invoke", !.key = k]]
  /\ returned' = NoReturn
  /\ listed' = NoReturn
  /\ UNCHANGED <<now, userRequests, chats, messages, req, variant, call, reader, started,
                 lastOk, streams, cache, invocations>>

MemoInvokeCachingFailure(m) ==
  /\ memo[m].pc = "invoke"
  /\ invocations[memo[m].key] < MaxInvocations
  /\ invocations' = [invocations EXCEPT ![memo[m].key] = @ + 1]
  /\ \/ /\ memo' = [memo EXCEPT ![m].pc = "set", ![m].invoked = @ + 1,
                                ![m].value = Result(Parse(memo[m].key[2]),
                                                    invocations'[memo[m].key])]
        /\ UNCHANGED cache
     \/ /\ memo' = [memo EXCEPT ![m].pc = "done", ![m].invoked = @ + 1,
                                ![m].error = UpstreamOperationFailed]
        /\ cache' = CacheStore(cache, memo[m].key, NoResult, now)
  /\ returned' = NoReturn
  /\ listed' = NoReturn
  /\ UNCHANGED <<now, userRequests, chats, messages, req, variant, call, reader, started,
                 lastOk, streams>>
\* on a miss the underlying operation runs: it returns its result, or it
\* fails and the failure goes to the caller
MemoInvoke(m) ==
  /\ memo[m].pc = "invoke"
  /\ invocations[memo[m].key] < MaxInvocations
  /\ invocations' = [invocations EXCEPT ![memo[m].key] = @ + 1]
  /\ \/ memo' = [memo EXCEPT ![m].pc = "set", ![m].invoked = @ + 1,
                             ![m].value = Result(Parse(memo[m].key[2]),
                                                 invocations'[memo[m].key])]
     \/ memo' = [memo EXCEPT ![m].pc = "done", ![m].invoked = @ + 1,
                             ![m].error = UpstreamOperationFailed]
  /\ returned' = NoReturn
  /\ listed' = NoReturn
  /\ UNCHANGED <<now, userRequests, chats, messages, req, variant, call, reader, started,
                 lastOk, streams, cache>>

\* the result is stored under the key and returned
MemoSet(m) ==
  /\ memo[m].pc = "set"
  /\ cache' = CacheStore(cache, memo[m].key, memo[m].value, now)
  /\ memo' = [memo EXCEPT ![m].pc = "done"]
  /\ returned' = NoReturn
  /\ listed' = NoReturn
  /\ UNCHANGED <<now, userRequests, chats, messages, req, variant, call, reader, started,
                 lastOk, streams, invocations>>

NextCache ==
  \/ \E m \in MemoCallers : MemoCall(m)
  \/ \E m \in MemoCallers : MemoInvoke(m)
  \/ \E m \in MemoCallers : MemoSet(m)
  \/ Tick

SpecCache == InitStore /\ [][NextCache]_vars

(* ------------------------------ claims -------------------------------- *)
\* the number of rows of user u whose requestDate lies in the day of instant t
RowsDatedOn(u, t) ==
  SumOver(userRequests, {k \in RowKeys : k.userId = u /\ k.requestDate \div DayLen = t \div DayLen})
\* request r takes a step from position pc
Leaves(r, pc) == req[r].pc = pc /\ req'[r] # req[r]
\* number of times event e is in the log of request r
LogCount(r, e) == Cardinality({i \in 1..Len(req[r].log) : req[r].log[i] = e})

\* C1: for a non-admin user the check denies exactly when the user's rows dated
\* today number 50 or more: the result carries that count and the limit 50, is
\* allowed below 50, and at 50 or more is a denial (status 429) whose reason
\* embeds the limit and the count.
C1_DeniesExactlyAtLimit ==
  [][\A r \in Reqs :
       Leaves(r, "getUserRequestCountToday") =>
         LET n == RowsDatedOn(req[r].user, now)
             c == req'[r].check
         IN /\ DAILY_REQUEST_LIMIT = 50
            /\ c.requestsToday = n
            /\ c.limit = Finite(50)
            /\ c.allowed = (n < 50)
            /\ c.allowed => req'[r].pc = "addUserRequest"
            /\ ~c.allowed => /\ req'[r].pc = "done"
                             /\ req'[r].status = 429
                             /\ Len(c.reason) = 5
                             /\ c.reason[2] = 50
                             /\ c.reason[4] = n]_vars
\* one request was admitted at 49 rows and another denied at 50
C1_Witness ==
  \E r1, r2 \in Reqs :
    /\ ~isUserAdmin(req[r1].user) /\ req[r1].check.allowed
    /\ req[r1].check.requestsToday = 49 /\ req[r1].check.limit = Finite(50)
    /\ req[r2].status = 429 /\ ~req[r2].check.allowed
    /\ req[r2].check.requestsToday = 50 /\ req[r2].check.reason = Reason(50, 50)

\* C2: a request of a user flagged admin is always admitted, with requestsToday
\* 0 and an unbounded limit, however many rows that user has today.
C2_AdminAlwaysAllowed ==
  \A r \in Reqs :
    (req[r].user \in Users /\ users[req[r].user].isAdmin
       /\ req[r].pc \notin {"idle", "isUserAdmin"}) =>
      /\ req[r].check.allowed
      /\ req[r].check.requestsToday = 0
      /\ req[r].check.limit = Infinity
      /\ req[r].check.reason = NoReason
      /\ req[r].status # 429
      /\ req[r].pc # "getUserRequestCountToday"
\* an admin was admitted while having more than 50 rows today
C2_Witness ==
  \E r \in Reqs :
    /\ req[r].user \in Users /\ users[req[r].user].isAdmin
    /\ req[r].pc = "addUserRequest" /\ req[r].check.allowed
    /\ RowsDatedOn(req[r].user, now) > 50

\* C3: a denied request changes no durable state: the step that denies leaves
\* the three tables as they are, and the request is over at once, having
\* recorded nothing, upserted nothing and started no generation.
C3_DenialChangesNothing ==
  [][\A r \in Reqs :
       req'[r].status = 429 =>
         /\ req'[r].pc = "done"
         /\ req'[r].log = <<>>
         /\ req[r].status # 429 =>
              /\ userRequests' = userRequests
              /\ chats' = chats
              /\ messages' = messages
              /\ RowsDatedOn(req[r].user, now)' = RowsDatedOn(req[r].user, now)]_vars
\* a request was denied
C3_Witness ==
  \E r \in Reqs : req[r].status = 429 /\ req[r].pc = "done" /\ ~req[r].check.allowed

\* C4: an admitted request inserts exactly one row, for its user and the
\* endpoint "/api/chat", before its first upsertChat and before generation; no
\* other step inserts a row, whether upsert or generation succeed or fail.
Admitted(r) ==
  req[r].pc \in {"json", "upsert1", "upsert1_tx", "streamText", "upsert2", "upsert2_tx"}
    \/ (req[r].pc = "done" /\ req[r].status \in {200, 500})
C5_LimitOnStaleCount ==
  [][userRequests' # userRequests =>
       \E r \in Reqs :
         /\ Leaves(r, "addUserRequest")
         /\ req[r].check.allowed
         /\ isUserAdmin(req[r].user) \/ req[r].check.requestsToday < DAILY_REQUEST_LIMIT]_vars
\* two requests of one non-admin user both passed the check at 49 rows and
\* both recorded: the user has 51 rows today
C5_Witness ==
  \E r1, r2 \in Reqs :
    /\ r1 # r2 /\ req[r1].user = req[r2].user /\ ~isUserAdmin(req[r1].user)
    /\ req[r1].check.requestsToday = 49 /\ req[r2].check.requestsToday = 49
    /\ LogCount(r1, "addUserRequest") = 1 /\ LogCount(r2, "addUserRequest") = 1
    /\ RowsDatedOn(req[r1].user, now) = 51

\* role and parts of each message of a list, in order
ContentOf(list) == [i \in 1..Len(list) |-> [role |-> list[i].role, parts |-> list[i].parts]]
\* the same of what the other query module's getChat returns (parts as content)
PlainContentOf(list) ==
  [i \in 1..Len(list) |-> [role |-> list[i].role, parts |-> list[i].content]]
\* the upsertChat call of p is past its ownership check and has not returned
InFlight(p) == call[p].pc \notin {"idle", "done"}
\* p throws in this step
Throws(p) == InFlight(p) /\ call'[p].pc = "done" /\ call'[p].error # ""
\* p returns normally in this step
Returns(p) == InFlight(p) /\ call'[p].pc = "done" /\ call'[p].error = ""

\* C6: in the transactional module, a getChat that follows a successful
\* upsertChat of [m1..mn] returns n messages, in the caller's order, with the
\* role and parts of m1..mn, and they are stored with order 0..n-1.
C6_UpsertThenGetChat ==
  (variant = "tx" /\ returned # NoReturn /\ returned[1].found) =>
    LET want == lastOk[returned[1].chatId]
        got == returned[1].messages
        rows == messages[returned[1].chatId]
    IN /\ Len(got) = Len(want)
       /\ Len(rows) = Len(want)
       /\ \A i \in 1..Len(want) :
            /\ got[i].role = want[i].role
            /\ got[i].parts = want[i].parts
            /\ rows[i].order = i - 1
\* getChat returned the two messages of the last upsert, in order
C6_Witness ==
  /\ variant = "tx" /\ returned # NoReturn /\ returned[1].found
  /\ lastOk[returned[1].chatId] = <<UserMsg, AssistantMsg>>
  /\ Len(returned[1].messages) = 2
  /\ returned[1].messages[1].role = "user" /\ returned[1].messages[2].role = "assistant"
  /\ \A p \in Callers : ~InFlight(p)

\* C7: in the transactional module the stored messages of a chat are always
\* exactly the list of its most recent successful upsert (B after A leaves B,
\* no union), and an upsert that fails at any step of the transaction leaves
\* the chat row and the messages exactly as they were.
C7_LastSuccessfulUpsertWins ==
  [][variant = "tx" =>
       /\ \A c \in ChatIds : ContentOf(messages'[c]) = ContentOf(lastOk'[c])
       /\ \A p \in Callers :
            /\ Throws(p) => chats' = chats /\ messages' = messages /\ lastOk' = lastOk
            /\ Returns(p) =>
                 /\ ContentOf(messages'[call[p].chatId]) = ContentOf(call[p].messages)
                 /\ chats'[call[p].chatId].title = call[p].title]_vars
\* one upsert failed inside its transaction, another succeeded, and the chat
\* holds exactly the list of the one that succeeded
C7_Witness ==
  \E p, q \in Callers, c \in ChatIds :
    /\ variant = "tx" /\ p # q
    /\ call[p].pc = "done" /\ call[p].error = "storage"
    /\ call[q].pc = "done" /\ call[q].error = "" /\ call[q].chatId = c
    /\ lastOk[c] = <<AssistantMsg, UserMsg>>
    /\ ContentOf(messages[c]) = ContentOf(<<AssistantMsg, UserMsg>>)

\* C8: in the transactional module a getChat that overlaps an upsertChat sees
\* the delete and the insert as one unit: what it returns is the complete list
\* of the last committed upsert, never empty after a non-empty list, never a
\* mixture, and the rows it read have pairwise different order values.
C8_ReaderSeesWholeList ==
  (variant = "tx" /\ returned # NoReturn /\ returned[1].found) =>
    LET c == returned[1].chatId
    IN /\ ContentOf(returned[1].messages) = ContentOf(lastOk[c])
       /\ lastOk[c] # <<>> => returned[1].messages # <<>>
       /\ \A i, j \in 1..Len(messages[c]) :
            messages[c][i].order = messages[c][j].order => i = j
\* getChat returned the old list A while a transaction replacing it with B
\* had deleted and not yet inserted
C8_Witness ==
  \E p \in Callers :
    /\ variant = "tx" /\ returned # NoReturn /\ returned[1].found
    /\ call[p].pc = "tx_insert" /\ call[p].chatId = returned[1].chatId
    /\ call[p].messages = <<AssistantMsg, UserMsg>>
    /\ call[p].view.messages[call[p].chatId] = <<>>
    /\ ContentOf(returned[1].messages) = ContentOf(<<UserMsg, AssistantMsg>>)

C10_NotOwnerMutatesNothing ==
  [][\A p \in Callers :
       (started' = started + 1 /\ call'[p] # call[p]) =>
         LET c == call'[p].chatId
             u == call'[p].userId
         IN (c \in DOMAIN chats /\ chats[c].userId # u) =>
              /\ call'[p].pc = "done"
              /\ call'[p].error = IF variant = "tx" THEN OwnershipError ELSE ExistsError
              /\ chats' = chats
              /\ messages' = messages]_vars
\* a call by another user than the owner of a chat with messages has thrown
C10_Witness ==
  \E p \in Callers :
    /\ call[p].pc = "done" /\ call[p].error \in {OwnershipError, ExistsError}
    /\ call[p].chatId \in DOMAIN chats
    /\ chats[call[p].chatId].userId # call[p].userId
    /\ messages[call[p].chatId] # <<>>

\* C11: a chat row, once created, keeps the userId it was created with and is
\* never removed, whatever upserts of whichever users interleave on its id.
C11_OwnerNeverChanges ==
  [][\A c \in DOMAIN chats :
       /\ c \in DOMAIN chats'
       /\ chats'[c].userId = chats[c].userId
       /\ chats'[c].id = c]_vars
\* two users raced for one new chat id: both calls passed the ownership check
\* and both returned; the chat still belongs to the one who created it
C11_Witness ==
  \E p, q \in Callers :
    /\ p # q /\ call[p].chatId = call[q].chatId /\ call[p].userId # call[q].userId
    /\ call[p].pc = "done" /\ call[p].error = ""
    /\ call[q].pc = "done" /\ call[q].error = ""
    /\ call[p].chatId \in DOMAIN chats
    /\ chats[call[p].chatId].userId = call[p].userId

\* a stored row as the getChat of the running query module returns it
Shown(row) == IF variant = "tx" THEN AsMessage(row) ELSE AsPlainMessage(row)
\* got lists the rows in ascending order of their order field: the rows of
\* each order value fill the positions that follow the rows of lesser order
AscendingByOrder(got, rows) ==
  /\ Len(got) = Len(rows)
  /\ \A o \in {rows[i].order : i \in DOMAIN rows} :
       LET lo == Cardinality({i \in DOMAIN rows : rows[i].order < o})
           hi == Cardinality({i \in DOMAIN rows : rows[i].order <= o})
       IN \A m \in {got[i] : i \in DOMAIN got} \cup {Shown(rows[i]) : i \in DOMAIN rows} :
            Cardinality({i \in (lo + 1)..hi : got[i] = m})
              = Cardinality({i \in DOMAIN rows : rows[i].order = o /\ Shown(rows[i]) = m})

\* C12: getChat returns a chat exactly when the chat exists and is owned by
\* the caller; otherwise it returns null, with no chat row and no message; the
\* messages it returns are the chat's rows in ascending order of order.
C12_GetChatOwnerOnly ==
  returned # NoReturn =>
    LET c == returned[1].chatId
        u == returned[1].userId
    IN /\ returned[1].found = (c \in DOMAIN chats /\ chats[c].userId = u)
       /\ ~returned[1].found => returned[1].chat = <<>> /\ returned[1].messages = <<>>
       /\ returned[1].found =>
            /\ returned[1].chat[1].id = c
            /\ returned[1].chat[1].userId = u
            /\ AscendingByOrder(returned[1].messages, messages[c])
\* getChat returned null to a user asking for another user's chat that has
\* messages
C12_Witness ==
  /\ returned # NoReturn /\ ~returned[1].found
  /\ returned[1].chatId \in DOMAIN chats
  /\ chats[returned[1].chatId].userId # returned[1].userId
  /\ messages[returned[1].chatId] # <<>>
  /\ returned[1].messages = <<>>

\* C14: in every committed state the order values of the stored messages of
\* every chat are exactly 0..n-1, n being the number of its messages.
C14_OrdersContiguous ==
  \A c \in ChatIds :
    /\ {messages[c][i].order : i \in DOMAIN messages[c]} = 0..(Len(messages[c]) - 1)
    /\ \A i, j \in DOMAIN messages[c] :
         messages[c][i].order = messages[c][j].order => i = j
\* the same, of the transactional query module alone
C14_TxOrdersContiguous == variant = "tx" => C14_OrdersContiguous

\* C15: when the second of two successful upsertChat calls of the owner on
\* one chat returns, the chat's stored list is exactly the list of one of the
\* two calls, never a union or interleaving.
C15_LastReplaceWins ==
  [][\A p, q \in Callers :
       (/\ p # q /\ Returns(p)
        /\ call[q].pc = "done" /\ call[q].error = ""
        /\ call[q].chatId = call[p].chatId /\ call[q].userId = call[p].userId) =>
         ContentOf(messages'[call[p].chatId])
           \in {ContentOf(call[p].messages), ContentOf(lastOk[call[p].chatId])}]_vars
\* the same, of the transactional query module alone
C15_TxLastReplaceWins ==
  [][variant = "tx" =>
       \A p, q \in Callers :
         (/\ p # q /\ Returns(p)
          /\ call[q].pc = "done" /\ call[q].error = ""
          /\ call[q].chatId = call[p].chatId /\ call[q].userId = call[p].userId) =>
           ContentOf(messages'[call[p].chatId])
             \in {ContentOf(call[p].messages), ContentOf(lastOk[call[p].chatId])}]_vars

\* the value a getChats / getStreamIds / appendStreamId of the last step gave
WasListed(op) == listed # NoReturn /\ listed[1].op = op
\* the chats of user u
ChatsOf(u) == {c \in DOMAIN chats : chats[c].userId = u}

\* C13: getChats(userId) returns exactly the chat rows owned by userId, each
\* once, none of another user, in descending order of updatedAt: the first is
\* a chat whose updatedAt is the latest of that user's chats.
C13_GetChatsOwnedNewestFirst ==
  WasListed("getChats") =>
    LET u == listed[1].of
        l == listed[1].result
    IN /\ {l[i].id : i \in DOMAIN l} = ChatsOf(u)
       /\ Len(l) = Cardinality(ChatsOf(u))
       /\ \A i \in DOMAIN l : l[i] = chats[l[i].id] /\ l[i].userId = u
       /\ \A i, j \in DOMAIN l : i < j => l[i].updatedAt >= l[j].updatedAt
       /\ \A c \in ChatsOf(u) : l[1].updatedAt >= chats[c].updatedAt
\* getChats of a user returned that user's two chats, the later updated first,
\* while the other user owns no chat
C13_Witness ==
  /\ WasListed("getChats") /\ Len(listed[1].result) = 2
  /\ listed[1].result[1].updatedAt > listed[1].result[2].updatedAt
  /\ \A i \in 1..2 : listed[1].result[i].userId = listed[1].of
\* getChats of a user returned only that user's chat while the other user
\* owns a chat updated later
C13_WitnessOthers ==
  /\ WasListed("getChats") /\ Len(listed[1].result) = 1
  /\ \E c \in DOMAIN chats :
       /\ chats[c].userId # listed[1].of
       /\ chats[c].updatedAt > listed[1].result[1].updatedAt
\* C13 as stated: once an upsertChat of a user returns, getChats of that
\* user lists the chat of that upsert first (every other chat of the user
\* having last been updated before that call began).
C13_RecentUpsertFirst ==
  [][\A p \in Callers :
       LET c == call[p].chatId
           u == call[p].userId
       IN (/\ Returns(p)
           /\ c \in DOMAIN chats' /\ chats'[c].userId = u
           /\ \A d \in DOMAIN chats' \ {c} :
                chats'[d].userId = u => chats'[d].updatedAt < call[p].calledAt) =>
            \A l \in getChats(chats', u) : l[1].id = c]_vars
\* the same, of the transactional query module alone
C13_TxRecentUpsertFirst ==
  [][variant = "tx" =>
       \A p \in Callers :
         LET c == call[p].chatId
             u == call[p].userId
         IN (/\ Returns(p)
             /\ c \in DOMAIN chats' /\ chats'[c].userId = u
             /\ \A d \in DOMAIN chats' \ {c} :
                  chats'[d].userId = u => chats'[d].updatedAt < call[p].calledAt) =>
              \A l \in getChats(chats', u) : l[1].id = c]_vars
\* in the transactional module a chat updated earlier was moved to the front
\* by a later upsert
C13_TxWitness ==
  /\ variant = "tx" /\ WasListed("getChats") /\ Len(listed[1].result) = 2
  /\ listed[1].result[1].id = "c1" /\ listed[1].result[1].updatedAt = 2
  /\ listed[1].result[2].updatedAt = 1

\* the ids of the streams of chat c
StreamsOf(c) == {s \in DOMAIN streams : streams[s].chatId = c}

\* C16: getStreamIds(chatId) returns exactly the ids of the streams appended
\* for that chat, newest first by createdAt, and mostRecentStreamId is the
\* first of them, or undefined when there is none; s1 appended and s2 appended
\* later give streamIds = [s2, s1] and mostRecentStreamId = s2.
C16_StreamIdsNewestFirst ==
  WasListed("getStreamIds") =>
    LET c == listed[1].of
        ids == listed[1].result.streamIds
        most == listed[1].result.mostRecentStreamId
    IN /\ {ids[i] : i \in DOMAIN ids} = StreamsOf(c)
       /\ Len(ids) = Cardinality(StreamsOf(c))
       /\ \A i, j \in DOMAIN ids : i < j => streams[ids[i]].createdAt >= streams[ids[j]].createdAt
       /\ most = IF Len(ids) = 0 THEN Undefined ELSE ids[1]
       /\ \A s1, s2 \in StreamIds :
            (StreamsOf(c) = {s1, s2} /\ streams[s1].createdAt < streams[s2].createdAt) =>
              ids = <<s2, s1>> /\ most = s2
\* s2 was appended to a chat later than s1, and getStreamIds gave [s2, s1]
C16_Witness ==
  /\ WasListed("getStreamIds")
  /\ listed[1].result.streamIds = <<"s2", "s1">>
  /\ listed[1].result.mostRecentStreamId = "s2"
  /\ streams["s1"].createdAt < streams["s2"].createdAt
\* getStreamIds of a chat without stream gave undefined while the other chat
\* has a stream
C16_WitnessNone ==
  /\ WasListed("getStreamIds")
  /\ listed[1].result.streamIds = <<>>
  /\ listed[1].result.mostRecentStreamId = Undefined
  /\ streams # NoStreams

\* C17: the registry is append-only: the only step that changes the stream
\* rows is a successful appendStreamId, which adds one row and leaves every
\* existing row as it is; an append of an id that exists fails and changes
\* nothing; upsertChat, getChat, getChats and getStreamIds change no stream
\* row; so the streams of a chat only grow.
C17_RegistryAppendOnly ==
  [][/\ streams' # streams =>
          /\ WasListed("appendStreamId")' /\ listed'[1].result = ""
          /\ listed'[1].of.streamId \notin DOMAIN streams
          /\ DOMAIN streams' = DOMAIN streams \cup {listed'[1].of.streamId}
          /\ streams'[listed'[1].of.streamId] =
               [id |-> listed'[1].of.streamId, chatId |-> listed'[1].of.chatId,
                createdAt |-> now]
     /\ \A k \in DOMAIN streams : k \in DOMAIN streams' /\ streams'[k] = streams[k]
     /\ (WasListed("appendStreamId")' /\ listed'[1].of.streamId \in DOMAIN streams) =>
          listed'[1].result = "duplicate key" /\ streams' = streams
     /\ (call' # call \/ returned' # NoReturn \/ WasListed("getChats")'
           \/ WasListed("getStreamIds")') => streams' = streams
     /\ \A c \in ChatIds : StreamsOf(c) \subseteq StreamsOf(c)']_vars
\* an append of an id that exists, for another chat than the one holding it,
\* has failed, and the row is as it was
C17_Witness ==
  /\ WasListed("appendStreamId") /\ listed[1].result = "duplicate key"
  /\ listed[1].of.streamId \in DOMAIN streams
  /\ streams[listed[1].of.streamId].chatId # listed[1].of.chatId
  /\ streams[listed[1].of.streamId].createdAt < now

\* no other request than r has upserted
OnlyUpserter(r) == \A q \in Reqs \ {r} : LogCount(q, "upsertChat") = 0
\* the chat of request r holds exactly the message list of the request's body
HoldsBody(r) ==
  ContentOf(messages[req[r].body.chatId]) = ContentOf(req[r].body.messages)

\* C18: the first upsert leaves the request's list stored; an abort of the
\* generation after it writes nothing and ends the request with no onFinish
\* and no second upsert, so that the chat keeps exactly the request's list
\* (as long as no other request replaces it).
C18_AbortKeepsFirstUpsert ==
  [][\A r \in Reqs :
       /\ (Leaves(r, "upsert1_tx") /\ req'[r].pc = "streamText") => HoldsBody(r)'
       /\ (Leaves(r, "streamText") /\ req'[r].stream = "aborted") =>
            /\ chats' = chats /\ messages' = messages
            /\ req'[r].pc = "done"
            /\ req'[r].log = <<"addUserRequest", "upsertChat", "streamText">>
       /\ req[r].stream = "aborted" => req'[r] = req[r]
       /\ (req'[r].stream = "aborted" /\ OnlyUpserter(r)') => HoldsBody(r)']_vars
\* a request whose generation was aborted is over, and its chat holds the
\* user's message alone
C18_Witness ==
  \E r \in Reqs :
    /\ req[r].pc = "done" /\ req[r].stream = "aborted"
    /\ req[r].body.messages = <<UserMsg>>
    /\ messages[req[r].body.chatId] = MessageValues(<<UserMsg>>)
    /\ chats[req[r].body.chatId].userId = req[r].user

\* C19: a failure of the upsertChat of onFinish is caught: the step changes no
\* table, the stream of the request finishes (status 200, no error) with the
\* failure logged, and the chat keeps the list of the first upsert (as long as
\* no other request replaces it).
C19_OnFinishFailureCaught ==
  [][\A r \in Reqs :
       /\ (req[r].pc \in {"upsert2", "upsert2_tx"} /\ req'[r].pc = "done"
             /\ req'[r].log = Append(req[r].log, "upsertChat throws")) =>
            /\ chats' = chats /\ messages' = messages
            /\ req'[r].stream = "finished"
            /\ req'[r].status = 200
       /\ (LogCount(r, "onFinish")' = 1 /\ LogCount(r, "upsertChat throws")' = 1) =>
            /\ req'[r].stream = "finished"
            /\ OnlyUpserter(r)' => HoldsBody(r)']_vars
\* the second upsert of a request failed: its stream finished and its chat
\* holds the user's message without the reply
C19_Witness ==
  \E r \in Reqs :
    /\ req[r].pc = "done" /\ req[r].stream = "finished" /\ req[r].status = 200
    /\ req[r].log = <<"addUserRequest", "upsertChat", "streamText", "onFinish",
                      "upsertChat throws">>
    /\ req[r].body.messages = <<UserMsg>>
    /\ messages[req[r].body.chatId] = MessageValues(<<UserMsg>>)

\* C20: for every request whose generation the handler has started, a stream
\* row of the request's chat is recorded.
C20_StreamRecorded ==
  \A r \in Reqs :
    LogCount(r, "streamText") > 0 =>
      \E s \in DOMAIN streams : streams[s].chatId = req[r].body.chatId

\* s is an initial part of t
IsPrefix(s, t) == Len(s) <= Len(t) /\ \A i \in 1..Len(s) : s[i] = t[i]
\* the orders in which one request can have made its calls
HandlerOrders ==
  {<<"addUserRequest", "upsertChat throws">>,
   <<"addUserRequest", "upsertChat", "streamText", "onFinish", "upsertChat">>,
   <<"addUserRequest", "upsertChat", "streamText", "onFinish", "upsertChat throws">>}

\* C21: the steps of one request are ordered: nothing is persisted by a
\* request before its admission check allowed it; generation starts only once
\* the first upsertChat has stored the request's messages; a failed first
\* upsert ends the request with no generation and no second upsert; the
\* second upsert comes only after generation has finished.
C21_HandlerStepsOrdered ==
  [][/\ \A r \in Reqs :
          /\ \E o \in HandlerOrders : IsPrefix(req'[r].log, o)
          /\ req'[r].log # <<>> => req'[r].check.allowed
          /\ (LogCount(r, "streamText") = 0 /\ LogCount(r, "streamText")' = 1) =>
               /\ req[r].pc = "upsert1_tx"
               /\ HoldsBody(r)'
          /\ (Len(req'[r].log) = 2 /\ req'[r].log[2] = "upsertChat throws") =>
               req'[r].pc = "done" /\ req'[r].stream = "error"
          /\ req'[r].pc \in {"upsert2", "upsert2_tx"} => LogCount(r, "onFinish")' = 1
     /\ <<userRequests, chats, messages>>' # <<userRequests, chats, messages>> =>
          \E r \in Reqs :
            /\ req'[r].log # req[r].log
            /\ req[r].check.allowed
            /\ req[r].pc \in {"addUserRequest", "upsert1_tx", "upsert2_tx"}]_vars
\* one request went through all its steps, and another failed its first
\* upsert on the ownership check and ended there
C21_Witness ==
  \E r1, r2 \in Reqs :
    /\ req[r1].pc = "done"
    /\ req[r1].log = <<"addUserRequest", "upsertChat", "streamText", "onFinish", "upsertChat">>
    /\ req[r2].pc = "done" /\ req[r2].stream = "error"
    /\ req[r2].log = <<"addUserRequest", "upsertChat throws">>
    /\ req[r2].user # chats[req[r2].body.chatId].userId

\* caller m begins a call in this step
Calls(m) == memo[m].pc \in {"idle", "done"} /\ memo'[m] # memo[m]
\* key k has an entry that has not expired
Fresh(k) == k \in DOMAIN cache /\ now < cache[k].expiresAt

\* C22: a call whose key has a non-expired entry returns the stored result
\* and does not run the underlying operation; a call on a miss or on an
\* expired entry runs it exactly once, stores the result under the key with
\* the fixed time-to-live and returns it.
C22_HitSkipsMissInvokesOnce ==
  [][\A m \in MemoCallers :
       LET k == memo'[m].key
       IN /\ (Calls(m) /\ Fresh(k)) =>
               /\ memo'[m].pc = "done" /\ memo'[m].error = ""
               /\ Serialize(memo'[m].value) = cache[k].value
               /\ memo'[m].invoked = 0
               /\ invocations' = invocations /\ cache' = cache
          /\ (Calls(m) /\ ~Fresh(k)) =>
               /\ memo'[m].pc = "invoke" /\ memo'[m].invoked = 0
               /\ invocations' = invocations /\ cache' = cache
          /\ (memo[m].pc = "invoke" /\ memo'[m].pc = "set") =>
               /\ memo'[m].invoked = 1
               /\ invocations' = [invocations EXCEPT ![k] = @ + 1]
               /\ memo'[m].value.urls = Parse(k[2])
          /\ (memo[m].pc = "set" /\ memo'[m].pc = "done") =>
               /\ memo'[m].invoked = 1 /\ memo'[m].error = ""
               /\ memo'[m].value = memo[m].value
               /\ cache'[k] = [value |-> Serialize(memo[m].value),
                               expiresAt |-> now + CacheTTL]
               /\ \A x \in DOMAIN cache \ {k} : cache'[x] = cache[x]
               /\ invocations' = invocations]_vars
\* the operation ran a second time for a key on a miss at the last instant,
\* its result was stored with the time-to-live, and the other caller then got
\* that result from the cache without running the operation
C22_Witness ==
  \E m, n \in MemoCallers, k \in CacheKeys :
    /\ m # n /\ memo[m].key = k /\ memo[n].key = k
    /\ memo[m].pc = "done" /\ memo[m].invoked = 1 /\ memo[m].value.run = 2
    /\ memo[n].pc = "done" /\ memo[n].invoked = 0 /\ memo[n].value.run = 2
    /\ invocations[k] = 2
    /\ cache[k].expiresAt = MaxTime + CacheTTL

\* C23: when the underlying operation fails, the call ends with that failure
\* and the step changes no cache entry; a following call of the same key, as
\* long as the key has no fresh entry, runs the operation again.
C23_FailureNotCached ==
  [][\A m \in MemoCallers :
       /\ (memo[m].pc = "invoke" /\ memo'[m].pc = "done") =>
            /\ memo'[m].error = UpstreamOperationFailed
            /\ memo'[m].invoked = 1
            /\ cache' = cache
       /\ (memo[m].pc = "done" /\ memo[m].error # "" /\ Calls(m)
             /\ memo'[m].key = memo[m].key /\ ~Fresh(memo[m].key)) =>
            memo'[m].pc = "invoke"
       /\ (memo[m].pc = "done" /\ memo[m].error # "" /\ ~Fresh(memo[m].key)) =>
            ENABLED MemoCall(m)]_vars
\* the operation failed for a key and nothing was cached; the same caller
\* called again with the same arguments and the operation ran again
C23_Witness ==
  \E m \in MemoCallers, k \in CacheKeys :
    /\ memo[m].key = k /\ memo[m].pc = "set" /\ memo[m].value.run = 2
    /\ invocations[k] = 2
    /\ cache = NoEntries
    /\ \A n \in MemoCallers \ {m} : memo[n].pc = "idle"

\* the midnight that starts the day of instant t
Midnight(t) == CHOOSE d \in 0..t : d % DayLen = 0 /\ t < d + DayLen
\* the rows of user u dated in the half-open interval from instant a to b
RowsDated(u, a, b) ==
  SumOver(userRequests,
          {k \in RowKeys : k.userId = u /\ a <= k.requestDate /\ k.requestDate < b})

\* C24: the count an admission check takes is the number of the user's rows
\* dated from the midnight that starts the day of the check on (that midnight
\* included, earlier days and other users excluded); so a check at the first
\* instant of a day admits a non-admin user whatever the days before hold.
C24_CountsFromLocalMidnight ==
  [][\A r \in Reqs :
       (req[r].pc = "getUserRequestCountToday" /\ req'[r] # req[r]) =>
         /\ req'[r].check.requestsToday =
              RowsDated(req[r].user, Midnight(now), MaxTime + 1)
         /\ req'[r].check.allowed =
              (RowsDated(req[r].user, Midnight(now), MaxTime + 1) < DAILY_REQUEST_LIMIT)
         /\ (now = Midnight(now) /\ RowsDated(req[r].user, now, now + 1) = 0) =>
              req'[r].check.allowed]_vars
\* a user over the limit was denied on day 0 (the rows counted are dated at
\* its midnight) and is admitted by a check at the midnight of the next day
C24_Witness ==
  \E r, q \in Reqs :
    /\ req[r].pc = "done" /\ req[r].status = 429
    /\ req[r].check.requestsToday = DAILY_REQUEST_LIMIT + 1
    /\ req[q].user = req[r].user
    /\ req[q].pc = "addUserRequest" /\ req[q].check.allowed
    /\ req[q].check.requestsToday = 0
    /\ now = DayLen
    /\ RowsDated(req[r].user, 0, DayLen) = DAILY_REQUEST_LIMIT + 1

\* the upsertChat call of p returns without an error in this step
ReturnsOk(p) ==
  call[p].pc \notin {"idle", "done"} /\ call'[p].pc = "done" /\ call'[p].error = ""

\* C25: when an upsertChat call returns successfully, the chat row carries the
\* title supplied to that call and an updatedAt not earlier than the row had
\* before, in both query modules.
C25_UpsertUpdatesChatRow ==
  [][\A p \in Callers :
       ReturnsOk(p) =>
         /\ call[p].chatId \in DOMAIN chats'
         /\ chats'[call[p].chatId].title = call[p].title
         /\ call[p].chatId \in DOMAIN chats =>
              chats'[call[p].chatId].updatedAt >= chats[call[p].chatId].updatedAt]_vars
\* C25 for queries.ts alone: its returning upsert leaves the title it was
\* given and the instant of its own statement on the chat row
C25_TxUpsertUpdatesChatRow ==
  [][\A p \in Callers :
       (variant = "tx" /\ ReturnsOk(p)) =>
         /\ call[p].chatId \in DOMAIN chats'
         /\ chats'[call[p].chatId].title = call[p].title
         /\ chats'[call[p].chatId].updatedAt >= call[p].calledAt
         /\ call[p].chatId \in DOMAIN chats =>
              chats'[call[p].chatId].updatedAt >= chats[call[p].chatId].updatedAt]_vars
\* queries.ts: a chat titled "Hello" was upserted again with "New Chat"
C25_TxWitness ==
  /\ variant = "tx"
  /\ "c1" \in DOMAIN chats /\ chats["c1"].title = "New Chat"
  /\ \E p, q \in Callers :
       /\ p # q /\ call[p].pc = "done" /\ call[q].pc = "done"
       /\ call[p].error = "" /\ call[q].error = ""
       /\ call[p].userId = call[q].userId
  /\ started = 2

\* C26: when two upsertChat calls of queries.ts by different users for the
\* same, new chat have both finished (neither by a storage failure), the call
\* of the user who is not the chat's owner has failed with the ownership error
\* and the owner's call is the only one that returned.
C26_OneUpsertWins ==
  \A p, q \in Callers :
    (/\ variant = "tx" /\ started = 2 /\ p # q
     /\ call[p].pc = "done" /\ call[q].pc = "done"
     /\ call[p].chatId = call[q].chatId /\ call[p].userId # call[q].userId
     /\ call[p].error # "storage" /\ call[q].error # "storage"
     /\ call[p].chatId \in DOMAIN chats
     /\ chats[call[p].chatId].userId = call[p].userId)
    => /\ call[p].error = ""
       /\ call[q].error = OwnershipError
\* C26 as a step: a call of queries.ts never commits on a chat that is, at
\* the commit, another user's
C26_CommitOnlyByOwner ==
  [][\A p \in Callers :
       (variant = "tx" /\ ReturnsOk(p) /\ call[p].chatId \in DOMAIN chats) =>
         chats[call[p].chatId].userId = call[p].userId]_vars

\* request r has taken its admission check and has not yet recorded
InWindow(r) == req[r].pc = "addUserRequest" /\ ~isUserAdmin(req[r].user)
\* no two requests of one user are between check and record at once
NoOverlap ==
  \A r, q \in Reqs : (r # q /\ InWindow(r) /\ InWindow(q)) => req[r].user # req[q].user
\* no non-admin user has more than the limit of rows dated on one day
WithinLimit ==
  \A u \in Users, d \in Times :
    (~isUserAdmin(u) /\ d = Midnight(d)) =>
      RowsDated(u, d, d + DayLen) <= DAILY_REQUEST_LIMIT

\* every request between check and record was admitted on a count that still
\* stands: its user has fewer than 50 rows dated today
RoomForPending ==
  \A r \in Reqs :
    InWindow(r) => RowsDated(req[r].user, Midnight(now), MaxTime + 1) < DAILY_REQUEST_LIMIT

\* the steps that bear on the limit: a row is recorded, the clock advances,
\* or a request passes its admission check
BearsOnLimit ==
  \/ userRequests' # userRequests
  \/ now' # now
  \/ \E r \in Reqs : req'[r].pc = "addUserRequest" /\ req[r].pc # "addUserRequest"

\* C27: a step between two states in which no two requests of the same
\* non-admin user are between their admission check and their record keeps
\* every day of every such user at 50 rows or fewer (and keeps room for the
\* one pending record); from a start within the limit, an execution without
\* such overlap therefore never exceeds 50 rows per user and day.
C27_SerialRequestsStayWithinLimit ==
  [][(BearsOnLimit /\ NoOverlap /\ NoOverlap' /\ RoomForPending) =>
       /\ RoomForPending'
       /\ (userRequests' # userRequests /\ WithinLimit) => WithinLimit']_vars
\* C27 over whole executions
C27_SerialExecutionsStayWithinLimit ==
  (WithinLimit /\ []NoOverlap) => []WithinLimit
\* the 50th row of the day was recorded by one request of u1 and the other
\* request of u1, checked after it, was denied
C27_Witness ==
  \E r, q \in Reqs :
    /\ r # q /\ req[r].user = "u1" /\ req[q].user = "u1"
    /\ req[r].check.allowed /\ req[r].check.requestsToday = DAILY_REQUEST_LIMIT - 1
    /\ req[r].pc \notin {"idle", "isUserAdmin", "getUserRequestCountToday", "addUserRequest"}
    /\ req[q].pc = "done" /\ req[q].status = 429
    /\ req[q].check.requestsToday = DAILY_REQUEST_LIMIT
    /\ RowsDated("u1", 0, DayLen) = DAILY_REQUEST_LIMIT

\* C28: the chat row a getChat of queries.ts returns is the row stored at the
\* instant its message list is read: row and messages are one committed state
\* (an upsert commits its row and its messages together).
C28_GetChatSnapshot ==
  [][(variant = "tx" /\ Len(returned') > 0 /\ returned'[1].found) =>
       /\ returned'[1].chatId \in DOMAIN chats
       /\ returned'[1].chat[1] = chats[returned'[1].chatId]]_vars

====
